---- MODULE Spec2Model ----
(***************************************************************************)
(* A model of ctapipe.core.container: Field, DeprecatedField,              *)
(* ContainerMeta, Container and Map.                                       *)
(*                                                                         *)
(* Python objects live in `heap`, a sequence indexed by object identity.   *)
(* A value is a terminal (int, str, None) or a reference to a heap object. *)
(* Class objects live in `classes`.  `last` records the operation that     *)
(* led to the current state and what it returned or raised.                *)
(* Class hierarchies consist of Container types only.                      *)
(***************************************************************************)
EXTENDS Integers, Sequences, FiniteSets, TLC

VARIABLES classes, heap, last

vars == <<classes, heap, last>>

\* ------------------------------------------------------------ bounds
MaxObjs == 13
MaxResetObjs == 14
MaxAliasObjs == 19
MaxLen == 1
MaxMetaObjs == 1
MaxDictObjs == 12

\* ------------------------------------------------------------ values
IntV(n) == [t |-> "int", v |-> n, s |-> ""]
StrV(x) == [t |-> "str", v |-> 0, s |-> x]
RefV(i) == [t |-> "ref", v |-> i, s |-> ""]
NoneV == [t |-> "none", v |-> 0, s |-> ""]

IsRef(val) == val.t = "ref"

\* ------------------------------------------- insertion-ordered dicts
\* A Python dict: a sequence of entries with distinct keys, in insertion
\* order.
Entry(k, val) == [k |-> k, val |-> val]

DictKeys(d) == [i \in 1..Len(d) |-> d[i].k]

DictKeySet(d) == {d[i].k : i \in 1..Len(d)}

DictHas(d, k) == k \in DictKeySet(d)

\* the entry stored under key k
DictEntry(d, k) == d[CHOOSE i \in 1..Len(d) : d[i].k = k]

DictGet(d, k) == DictEntry(d, k).val

\* storing entry e: an existing key keeps its position
DictPut(d, e) ==
    IF DictHas(d, e.k)
    THEN [i \in 1..Len(d) |-> IF d[i].k = e.k THEN e ELSE d[i]]
    ELSE Append(d, e)

\* d[k] = val
DictSet(d, k, val) == DictPut(d, Entry(k, val))

RECURSIVE DictUpdate(_, _)
\* d.update(e)
DictUpdate(d, e) ==
    IF e = <<>> THEN d
    ELSE DictUpdate(DictPut(d, e[1]), Tail(e))

Reverse(s) == [i \in 1..Len(s) |-> s[Len(s) + 1 - i]]

SeqToSet(s) == {s[i] : i \in 1..Len(s)}

\* ----------------------------------------------------------- objects
ContainerObj(type, data, meta, prefix) ==
    [kind |-> "Container", type |-> type, data |-> data, meta |-> meta,
     prefix |-> prefix, elems |-> <<>>]

ListObj(elems) ==
    [kind |-> "list", type |-> "list", data |-> <<>>, meta |-> <<>>,
     prefix |-> "", elems |-> elems]

MapObj(data) ==
    [kind |-> "Map", type |-> "Map", data |-> data, meta |-> <<>>,
     prefix |-> "", elems |-> <<>>]

IsContainer(h, val) == IsRef(val) /\ h[val.v].kind = "Container"

IsMap(h, val) == IsRef(val) /\ h[val.v].kind = "Map"

\* ------------------------------------------------------- descriptors
\* Field(default) / DeprecatedField(default) bound to `name` in class
\* `owner` by __set_name__; (owner, name) is the descriptor's identity.
FieldDesc(owner, name, default) ==
    [kind |-> "Field", owner |-> owner, name |-> name, default |-> default]

DeprecatedFieldDesc(owner, name, default) ==
    [kind |-> "DeprecatedField", owner |-> owner, name |-> name,
     default |-> default]

\* a class variable that is no Field
OtherAttr(val) ==
    [kind |-> "other", owner |-> "", name |-> "", default |-> val]

IsField(a) == a.kind \in {"Field", "DeprecatedField"}

\* The attributes a Field / DeprecatedField instance has.
FieldAttrs(desc) ==
    {"default", "description", "unit", "ucd", "name"}
        \cup (IF desc.kind = "DeprecatedField" THEN {"reason"} ELSE {})

\* ------------------------------------------------- class construction
ContainerSlots == {"meta", "prefix", "__data__"}

\* name.lower().replace("container", "") for the class names used here
DefaultPrefix(name) ==
    CASE name = "Container" -> ""
      [] name = "Leaf" -> "leaf"
      [] name = "Child" -> "child"
      [] name = "Event" -> "event"
      [] name = "A" -> "a"
      [] name = "B" -> "b"
      [] name = "C" -> "c"
      [] OTHER -> name

\* issubclass(a, b) for classes of the table
IsSubclass(cls, a, b) == b \in SeqToSet(cls[a].mro)

RECURSIVE InheritFields(_, _, _)
\* for b in reversed(bases): if issubclass(b, Container): fields.update(b.fields)
\* (rbases is reversed(bases))
InheritFields(cls, fields, rbases) ==
    IF rbases = <<>> THEN fields
    ELSE InheritFields(cls,
                       IF IsSubclass(cls, rbases[1], "Container")
                       THEN DictUpdate(fields, cls[rbases[1]].fields)
                       ELSE fields,
                       Tail(rbases))

RECURSIVE OwnFields(_, _)
\* for k, v in dct.items(): if isinstance(v, Field): fields[k] = v
OwnFields(fields, dct) ==
    IF dct = <<>> THEN fields
    ELSE OwnFields(IF IsField(dct[1].val)
                   THEN DictSet(fields, dct[1].k, dct[1].val)
                   ELSE fields,
                   Tail(dct))

\* type.__new__ rejects the bases (TypeError) unless they are distinct and
\* each later base is a proper ancestor of every earlier one: an ancestor
\* listed before its descendant has no consistent method resolution order,
\* and two Container types neither of which derives from the other both
\* add the slots of line 90 to the instance layout, which conflicts.
BasesRejected(cls, bases) ==
    \E i, j \in 1..Len(bases) :
        /\ i < j
        /\ \/ bases[i] = bases[j]
           \/ ~IsSubclass(cls, bases[i], bases[j])

\* ContainerMeta.__new__ merging the bases' fields in the order given
\* rather than reversed
MetaNew_ForwardBases(cls, name, bases, dct) ==
    LET fields == OwnFields(InheritFields(cls, <<>>, bases), dct)
        dct1 == IF DictHas(dct, "container_prefix") THEN dct
                ELSE DictSet(dct, "container_prefix",
                             OtherAttr(StrV(DefaultPrefix(name))))
    IN  [name |-> name,
         bases |-> bases,
         mro |-> IF bases = <<>> THEN <<name>>
                 ELSE <<name>> \o cls[bases[1]].mro,
         slots |-> ContainerSlots,
         fields |-> fields,
         dct |-> dct1]

\* The class object ContainerMeta.__new__ returns.
MetaNew(cls, name, bases, dct) ==
    LET fields == OwnFields(InheritFields(cls, <<>>, Reverse(bases)), dct)
        dct1 == IF DictHas(dct, "container_prefix") THEN dct
                ELSE DictSet(dct, "container_prefix",
                             OtherAttr(StrV(DefaultPrefix(name))))
    IN  [name |-> name,
         bases |-> bases,
         mro |-> IF bases = <<>> THEN <<name>>
                 ELSE <<name>> \o cls[bases[1]].mro,
         slots |-> ContainerSlots,
         fields |-> fields,
         dct |-> dct1]

\* The attributes found in a class's own namespace.
Namespace(c) == DictKeySet(c.dct) \cup c.slots \cup {"fields"}

\* Attribute lookup on a type along its method resolution order: the
\* class that provides `name`, or "" when none does.
RECURSIVE LookupIn(_, _, _)
LookupIn(cls, mro, name) ==
    IF mro = <<>> THEN ""
    ELSE IF name \in Namespace(cls[mro[1]]) THEN mro[1]
    ELSE LookupIn(cls, Tail(mro), name)

Provider(cls, T, name) == LookupIn(cls, cls[T].mro, name)

\* the Field descriptor attribute access finds for `name` on type T
HasDescriptor(cls, T, name) ==
    LET p == Provider(cls, T, name)
    IN  /\ p # ""
        /\ DictHas(cls[p].dct, name)
        /\ IsField(DictGet(cls[p].dct, name))

Descriptor(cls, T, name) == DictGet(cls[Provider(cls, T, name)].dct, name)

\* self.container_prefix
ContainerPrefix(cls, T) ==
    DictGet(cls[Provider(cls, T, "container_prefix")].dct,
            "container_prefix").default.s

\* The methods Container defines (class variables that are no Field).
ContainerMethods ==
    <<"items", "keys", "values", "as_dict", "reset", "update">>

\* class Container(metaclass=ContainerMeta)
ContainerClass ==
    MetaNew(<<>>, "Container", <<>>,
            [i \in 1..Len(ContainerMethods) |->
                Entry(ContainerMethods[i], OtherAttr(NoneV))])

\* --------------------------------------------------------- deep copy
\* What an operation returns: the heap it leaves, the exception it raised
\* ("" for none), its return value and the deprecation warnings it emitted.
Result(h, exc, ret, warned) ==
    [heap |-> h, exc |-> exc, ret |-> ret, warned |-> warned]

SetData(h, id, k, val) ==
    [h EXCEPT ![id].data = (k :> val) @@ h[id].data]

RECURSIVE deepcopy(_, _), CopyData(_, _, _, _), CopyElems(_, _, _, _)
\* copy.copy in place of copy.deepcopy: a new object that shares what the
\* original holds
deepcopy_Shallow(h, val) ==
    IF ~IsRef(val) THEN [heap |-> h, val |-> val]
    ELSE [heap |-> Append(h, h[val.v]), val |-> RefV(Len(h) + 1)]

\* copy.deepcopy(val): terminals are returned as they are; an object is
\* copied into a newly allocated object, and so is everything it holds.
\* Returns the heap after the copy and the value of the copy.
deepcopy(h, val) ==
    IF ~IsRef(val) THEN [heap |-> h, val |-> val]
    ELSE LET o == h[val.v]
             id == Len(h) + 1
             h1 == Append(h, o)
         IN  [heap |-> IF o.kind = "Container"
                       THEN CopyData(h1, id, o.data, DOMAIN o.data)
                       ELSE CopyElems(h1, id, o.elems, 1),
              val |-> RefV(id)]

\* the copy of a Container's value store, key by key
CopyData(h, id, data, todo) ==
    IF todo = {} THEN h
    ELSE LET k == CHOOSE x \in todo : TRUE
             c == deepcopy(h, data[k])
         IN  CopyData(SetData(c.heap, id, k, c.val), id, data, todo \ {k})

\* the copy of a list's elements or a Map's entries, one by one
CopyElems(h, id, elems, i) ==
    IF i > Len(elems) THEN h
    ELSE IF h[id].kind = "list"
    THEN LET c == deepcopy(h, elems[i])
         IN  CopyElems([c.heap EXCEPT ![id].elems[i] = c.val], id, elems, i + 1)
    ELSE LET c == deepcopy(h, elems[i].val)
         IN  CopyElems([c.heap EXCEPT ![id].elems[i].val = c.val],
                       id, elems, i + 1)

\* ------------------------------------------------ Field descriptors
\* the value standing for a descriptor object
DescV(desc) == [t |-> "desc", v |-> 0, s |-> desc.owner \o "." \o desc.name]

\* Field.__get__(self, instance, instance_type); instance 0 is None
Field_get(h, desc, instance) ==
    IF instance # 0
    THEN IF desc.name \in DOMAIN h[instance].data
         THEN Result(h, "", h[instance].data[desc.name], 0)
         ELSE Result(h, "KeyError", NoneV, 0)
    ELSE \* return self.field
         IF "field" \in FieldAttrs(desc)
         THEN Result(h, "", DescV(desc), 0)
         ELSE Result(h, "AttributeError", NoneV, 0)

\* Field.__set__(self, instance, value)
Field_set(h, desc, instance, val) ==
    Result(SetData(h, instance, desc.name, val), "", NoneV, 0)

\* DeprecatedField.__get__: warnings.warn, then Field.__get__
DeprecatedField_get(h, desc, instance) ==
    [Field_get(h, desc, instance) EXCEPT !.warned = @ + 1]

\* DeprecatedField.__set__: warnings.warn, then Field.__set__
DeprecatedField_set(h, desc, instance, val) ==
    [Field_set(h, desc, instance, val) EXCEPT !.warned = @ + 1]

Desc_get(h, desc, instance) ==
    IF desc.kind = "DeprecatedField"
    THEN DeprecatedField_get(h, desc, instance)
    ELSE Field_get(h, desc, instance)

Desc_set(h, desc, instance, val) ==
    IF desc.kind = "DeprecatedField"
    THEN DeprecatedField_set(h, desc, instance, val)
    ELSE Field_set(h, desc, instance, val)

\* ------------------------------------------------- attribute access
\* setattr as it would be with an instance __dict__ (no __slots__): a name
\* that is no field is stored as well.
setattr_NoSlots(cls, h, id, name, val) ==
    IF HasDescriptor(cls, h[id].type, name)
    THEN Desc_set(h, Descriptor(cls, h[id].type, name), id, val)
    ELSE Result(SetData(h, id, name, val), "", NoneV, 0)

\* setattr(obj, name, val) on an instance of a class with __slots__ and
\* no __dict__: a Field descriptor's __set__, or a slot, or AttributeError
\* (no such attribute, or a read-only class attribute).  Of the slots
\* only prefix is assigned to here.
setattr_(cls, h, id, name, val) ==
    LET T == h[id].type
        p == Provider(cls, T, name)
    IN  IF HasDescriptor(cls, T, name)
        THEN Desc_set(h, Descriptor(cls, T, name), id, val)
        ELSE IF p # "" /\ name \in cls[p].slots /\ name = "prefix"
        THEN Result([h EXCEPT ![id].prefix = val.s], "", NoneV, 0)
        ELSE Result(h, "AttributeError", NoneV, 0)

\* getattr(obj, name)
getattr_(cls, h, id, name) ==
    LET T == h[id].type
        p == Provider(cls, T, name)
    IN  IF HasDescriptor(cls, T, name)
        THEN Desc_get(h, Descriptor(cls, T, name), id)
        ELSE IF p = "" THEN Result(h, "AttributeError", NoneV, 0)
        ELSE IF name = "prefix" THEN Result(h, "", StrV(h[id].prefix), 0)
        ELSE IF DictHas(cls[p].dct, name)
        THEN Result(h, "", DictGet(cls[p].dct, name).default, 0)
        ELSE Result(h, "", [t |-> "attr", v |-> id, s |-> name], 0)

\* getattr(cls, name) on the class T itself
class_getattr(cls, h, T, name) ==
    LET p == Provider(cls, T, name)
    IN  IF HasDescriptor(cls, T, name)
        THEN Desc_get(h, Descriptor(cls, T, name), 0)
        ELSE IF p = "" THEN Result(h, "AttributeError", NoneV, 0)
        ELSE IF DictHas(cls[p].dct, name)
        THEN Result(h, "", DictGet(cls[p].dct, name).default, 0)
        ELSE Result(h, "", [t |-> "attr", v |-> 0, s |-> name], 0)

\* Container.__getitem__
getitem_(cls, h, id, key) == getattr_(cls, h, id, key)

\* Container.__setitem__
setitem_(cls, h, id, key, val) == setattr_(cls, h, id, key, val)

\* ------------------------------------------------------- Container
RECURSIVE InitDefaults(_, _, _, _, _)
\* for k in set(self.fields).difference(fields):
\*     self.__data__[k] = deepcopy(self.fields[k].default)
InitDefaults(h, id, fields, given, i) ==
    IF i > Len(fields) THEN h
    ELSE IF fields[i].k \in given
    THEN InitDefaults(h, id, fields, given, i + 1)
    ELSE LET c == deepcopy(h, fields[i].val.default)
         IN  InitDefaults(SetData(c.heap, id, fields[i].k, c.val),
                          id, fields, given, i + 1)

RECURSIVE InitGiven(_, _, _)
\* for k, v in fields.items(): self.__data__[k] = v
InitGiven(h, id, kwargs) ==
    IF kwargs = <<>> THEN h
    ELSE InitGiven(SetData(h, id, kwargs[1].k, kwargs[1].val), id,
                   Tail(kwargs))

\* T(**kwargs): Container.__init__ on a new object
Container_init(cls, h, T, kwargs) ==
    LET id == Len(h) + 1
        h0 == Append(h, ContainerObj(T, <<>>, <<>>, ContainerPrefix(cls, T)))
        h1 == InitDefaults(h0, id, cls[T].fields, DictKeySet(kwargs), 1)
    IN  Result(InitGiven(h1, id, kwargs), "", RefV(id), 0)

\* isinstance(x, Container) for a descriptor x
DescIsContainer(desc) == desc.kind = "Container"

RECURSIVE Container_reset(_, _, _, _), ResetFields(_, _, _, _, _, _)
\* reset that starts the record over as __init__ does, meta included
Container_reset_ClearsMeta(cls, h, id, recursive) ==
    ResetFields(cls, [h EXCEPT ![id].meta = <<>>], id, recursive,
                cls[h[id].type].fields, 1)

\* Container.reset(self, recursive)
Container_reset(cls, h, id, recursive) ==
    ResetFields(cls, h, id, recursive, cls[h[id].type].fields, 1)

\* for name, value in self.fields.items(): ...
ResetFields(cls, h, id, recursive, fields, i) ==
    IF i > Len(fields) THEN h
    ELSE LET name == fields[i].k
             value == fields[i].val
         IN  IF recursive /\ DescIsContainer(value)
             THEN ResetFields(cls,
                              Container_reset(cls, h, h[id].data[name].v, TRUE),
                              id, recursive, fields, i + 1)
             ELSE LET c == deepcopy(h, value.default)
                  IN  ResetFields(cls, SetData(c.heap, id, name, c.val),
                                  id, recursive, fields, i + 1)

RECURSIVE Container_update(_, _, _, _, _)
\* Container.update(self, **values): setattr per keyword, in order; the
\* first exception ends the call.  w: the warnings emitted so far.
Container_update(cls, h, id, kwargs, w) ==
    IF kwargs = <<>> THEN Result(h, "", NoneV, w)
    ELSE LET r == setattr_(cls, h, id, kwargs[1].k, kwargs[1].val)
         IN  IF r.exc # "" THEN Result(r.heap, r.exc, NoneV, w + r.warned)
             ELSE Container_update(cls, r.heap, id, Tail(kwargs), w + r.warned)

\* Container.keys(self, add_prefix), as the sequence it yields
Container_keys(cls, h, id, add_prefix) ==
    LET ks == DictKeys(cls[h[id].type].fields)
    IN  IF add_prefix
        THEN [i \in 1..Len(ks) |-> h[id].prefix \o "_" \o ks[i]]
        ELSE ks

\* Container.items(self, add_prefix), as the sequence of (key, value) it
\* yields; each value is read with getattr
Container_items(cls, h, id, add_prefix) ==
    LET ks == DictKeys(cls[h[id].type].fields)
    IN  IF ~add_prefix \/ h[id].prefix = ""
        THEN [i \in 1..Len(ks) |-> Entry(ks[i], getattr_(cls, h, id, ks[i]).ret)]
        ELSE [i \in 1..Len(ks) |->
                 Entry(h[id].prefix \o "_" \o ks[i],
                       getattr_(cls, h, id, ks[i]).ret)]

\* ---------------------------------------------------------- as_dict
\* An entry of a dict as_dict returns: a value, or a nested dict.
DEntry(k, val) == [k |-> k, isdict |-> FALSE, val |-> val, sub |-> <<>>]

DSub(k, d) == [k |-> k, isdict |-> TRUE, val |-> NoneV, sub |-> d]

\* {f"{key}_{k}": v for k, v in inner.items()}
Renamed(key, inner) ==
    DictUpdate(<<>>, [i \in 1..Len(inner) |->
                         [inner[i] EXCEPT !.k = key \o "_" \o inner[i].k]])

\* dict(items)
DictOf(items) ==
    DictUpdate(<<>>, [i \in 1..Len(items) |-> DEntry(items[i].k, items[i].val)])

RECURSIVE Container_as_dict(_, _, _, _, _, _), Map_as_dict(_, _, _, _, _, _),
          ContainerLoop(_, _, _, _, _, _, _, _), MapLoop(_, _, _, _, _, _, _, _)

\* val.as_dict(...): the method of val's class
as_dict(cls, h, id, recursive, flatten, add_prefix) ==
    IF h[id].kind = "Container"
    THEN Container_as_dict(cls, h, id, recursive, flatten, add_prefix)
    ELSE Map_as_dict(cls, h, id, recursive, flatten, add_prefix)

\* Container.as_dict(self, recursive, flatten, add_prefix)
Container_as_dict(cls, h, id, recursive, flatten, add_prefix) ==
    IF ~recursive THEN DictOf(Container_items(cls, h, id, add_prefix))
    ELSE ContainerLoop(cls, h, Container_items(cls, h, id, add_prefix), 1,
                       <<>>, recursive, flatten, add_prefix)

\* for key, val in self.items(add_prefix=add_prefix): ...
ContainerLoop(cls, h, items, i, d, recursive, flatten, add_prefix) ==
    IF i > Len(items) THEN d
    ELSE LET key == items[i].k
             val == items[i].val
             d1 == IF IsContainer(h, val) \/ IsMap(h, val)
                   THEN IF flatten
                        THEN \* val.as_dict(recursive, add_prefix=add_prefix)
                             DictUpdate(d, Renamed(key,
                                 as_dict(cls, h, val.v, recursive, FALSE,
                                         add_prefix)))
                        ELSE DictPut(d, DSub(key,
                                 as_dict(cls, h, val.v, recursive, flatten,
                                         add_prefix)))
                   ELSE DictPut(d, DEntry(key, val))
         IN  ContainerLoop(cls, h, items, i + 1, d1, recursive, flatten,
                           add_prefix)

\* Map.as_dict(self, recursive, flatten, add_prefix)
Map_as_dict(cls, h, id, recursive, flatten, add_prefix) ==
    IF ~recursive THEN DictOf(h[id].elems)
    ELSE MapLoop(cls, h, h[id].elems, 1, <<>>, recursive, flatten, add_prefix)

\* for key, val in self.items(): ...
MapLoop(cls, h, items, i, d, recursive, flatten, add_prefix) ==
    IF i > Len(items) THEN d
    ELSE LET key == items[i].k
             val == items[i].val
             d1 == IF IsContainer(h, val) \/ IsMap(h, val)
                   THEN IF flatten
                        THEN \* val.as_dict(recursive, add_prefix=add_prefix)
                             DictUpdate(d, Renamed(key,
                                 as_dict(cls, h, val.v, recursive, FALSE,
                                         add_prefix)))
                        ELSE DictPut(d, DSub(key,
                                 as_dict(cls, h, val.v, recursive, flatten,
                                         add_prefix)))
                   ELSE DictPut(d, DEntry(key, val))
         IN  MapLoop(cls, h, items, i + 1, d1, recursive, flatten, add_prefix)

\* ------------------------------------------------------ the program
\* The Container types the operations below are exercised on:
\*   class Leaf(Container):   value = Field(0)
\*   class Child(Container):  leaf = Field(Leaf())
\*   class Event(Container):  x = Field(0); child = Field(Child())
\*                            hits = Field([]); tels = Field(Map())
\*                            old = DeprecatedField(0)
\* Defining them allocates the default objects.
Program ==
    LET c0 == "Container" :> ContainerClass
        c1 == ("Leaf" :> MetaNew(c0, "Leaf", <<"Container">>,
                  <<Entry("value", FieldDesc("Leaf", "value", IntV(0)))>>))
              @@ c0
        r1 == Container_init(c1, <<>>, "Leaf", <<>>)
        c2 == ("Child" :> MetaNew(c1, "Child", <<"Container">>,
                  <<Entry("leaf", FieldDesc("Child", "leaf", r1.ret))>>))
              @@ c1
        r2 == Container_init(c2, r1.heap, "Child", <<>>)
        h3 == Append(r2.heap, ListObj(<<>>))
        h4 == Append(h3, MapObj(<<>>))
        c3 == ("Event" :> MetaNew(c2, "Event", <<"Container">>,
                  <<Entry("x", FieldDesc("Event", "x", IntV(0))),
                    Entry("child", FieldDesc("Event", "child", r2.ret)),
                    Entry("hits", FieldDesc("Event", "hits", RefV(Len(h3)))),
                    Entry("tels", FieldDesc("Event", "tels", RefV(Len(h4)))),
                    Entry("old", DeprecatedFieldDesc("Event", "old", IntV(0)))>>))
              @@ c2
    IN  [classes |-> c3, heap |-> h4]

\* the identities of the default objects
DefaultIds == 1..Len(Program.heap)

\* the objects made after the classes were defined
Made == (1..Len(heap)) \ DefaultIds

Instances == {i \in Made : heap[i].kind = "Container"}

InstancesOf(T) == {i \in Instances : heap[i].type = T}

FieldNames(T) == DictKeySet(classes[T].fields)

\* ------------------------------------------------------- operations
NoLast ==
    [op |-> "", target |-> 0, type |-> "", name |-> "", val |-> NoneV,
     kwargs |-> <<>>,
     recursive |-> FALSE, flatten |-> FALSE, add_prefix |-> FALSE,
     exc |-> "", ret |-> NoneV, warned |-> 0, names |-> <<>>, dict |-> <<>>]

Called(op, target, name, val, r) ==
    [NoLast EXCEPT !.op = op, !.target = target, !.name = name, !.val = val,
                   !.exc = r.exc, !.ret = r.ret, !.warned = r.warned]

\* keyword arguments tried on construction and update
Kw(k, n) == Entry(k, IntV(n))

KwargsChoices ==
    {<<>>, <<Kw("x", 1)>>, <<Kw("old", 1)>>, <<Kw("bogus", 1)>>,
     <<Kw("x", 1), Kw("old", 1)>>, <<Kw("x", 1), Kw("bogus", 1)>>,
     <<Kw("bogus", 1), Kw("x", 1)>>}

\* names tried in attribute and item access
NamesTried(T) == FieldNames(T) \cup {"bogus", "fields", "prefix"}

ValuesFor(name) ==
    IF name = "prefix" THEN {StrV(""), StrV("evt")} ELSE {IntV(1)}

Init ==
    /\ classes = Program.classes
    /\ heap = Program.heap
    /\ last = NoLast

\* e = T(**kwargs)
Construct(T, kwargs, limit) ==
    LET r == Container_init(classes, heap, T, kwargs)
    IN  /\ Len(r.heap) <= limit
        /\ heap' = r.heap
        /\ last' = [Called("construct", r.ret.v, "", NoneV, r)
                       EXCEPT !.type = T, !.kwargs = kwargs]
        /\ UNCHANGED classes

\* obj.name = val
SetAttr(id, name, val) ==
    LET r == setattr_(classes, heap, id, name, val)
    IN  /\ heap' = r.heap
        /\ last' = Called("setattr", id, name, val, r)
        /\ UNCHANGED classes

\* obj[name] = val
SetItem(id, name, val) ==
    LET r == setitem_(classes, heap, id, name, val)
    IN  /\ heap' = r.heap
        /\ last' = Called("setitem", id, name, val, r)
        /\ UNCHANGED classes

\* obj.update(**kwargs)
Update(id, kwargs) ==
    LET r == Container_update(classes, heap, id, kwargs, 0)
    IN  /\ heap' = r.heap
        /\ last' = [Called("update", id, "", NoneV, r) EXCEPT !.kwargs = kwargs]
        /\ UNCHANGED classes

\* obj.reset(recursive)
Reset(id, recursive, limit) ==
    LET h == Container_reset(classes, heap, id, recursive)
    IN  /\ Len(h) <= limit
        /\ heap' = h
        /\ last' = [Called("reset", id, "", NoneV, Result(h, "", NoneV, 0))
                       EXCEPT !.recursive = recursive]
        /\ UNCHANGED classes

\* obj.name
GetAttr(id, name) ==
    LET r == getattr_(classes, heap, id, name)
    IN  /\ heap' = r.heap
        /\ last' = Called("getattr", id, name, NoneV, r)
        /\ UNCHANGED classes

\* obj[name]
GetItem(id, name) ==
    LET r == getitem_(classes, heap, id, name)
    IN  /\ heap' = r.heap
        /\ last' = Called("getitem", id, name, NoneV, r)
        /\ UNCHANGED classes

\* obj.meta[k] = val
MetaSet(id, k, val) ==
    /\ heap' = [heap EXCEPT ![id].meta = (k :> val) @@ @]
    /\ last' = Called("metaset", id, k, val, Result(heap, "", NoneV, 0))
    /\ UNCHANGED classes

\* list(obj.keys(add_prefix))
Keys(id, add_prefix) ==
    /\ heap' = heap
    /\ last' = [Called("keys", id, "", NoneV, Result(heap, "", NoneV, 0))
                   EXCEPT !.add_prefix = add_prefix,
                          !.names = Container_keys(classes, heap, id, add_prefix)]
    /\ UNCHANGED classes

\* list(obj.items(add_prefix))
Items(id, add_prefix) ==
    LET items == Container_items(classes, heap, id, add_prefix)
    IN  /\ heap' = heap
        /\ last' = [Called("items", id, "", NoneV, Result(heap, "", NoneV, 0))
                       EXCEPT !.add_prefix = add_prefix,
                              !.names = DictKeys(items),
                              !.dict = DictOf(items)]
        /\ UNCHANGED classes

\* obj.as_dict(recursive, flatten, add_prefix) on a Container or a Map
AsDict(id, recursive, flatten, add_prefix) ==
    /\ heap' = heap
    /\ last' = [Called("as_dict", id, "", NoneV, Result(heap, "", NoneV, 0))
                   EXCEPT !.recursive = recursive, !.flatten = flatten,
                          !.add_prefix = add_prefix,
                          !.dict = as_dict(classes, heap, id, recursive,
                                           flatten, add_prefix)]
    /\ UNCHANGED classes

Events == InstancesOf("Event")

\* construction, attribute and item access, update, keys and items on
\* Event records
Next ==
    \/ \E kwargs \in KwargsChoices : Construct("Event", kwargs, MaxObjs)
    \/ \E id \in Events : \E name \in NamesTried("Event") :
           \E val \in ValuesFor(name) : SetAttr(id, name, val)
    \/ \E id \in Events : \E name \in NamesTried("Event") :
           \E val \in ValuesFor(name) : SetItem(id, name, val)
    \/ \E id \in Events : \E kwargs \in KwargsChoices : Update(id, kwargs)
    \/ \E id \in Events : \E name \in NamesTried("Event") : GetAttr(id, name)
    \/ \E id \in Events : \E name \in NamesTried("Event") : GetItem(id, name)
    \/ \E id \in Events : \E add_prefix \in BOOLEAN : Keys(id, add_prefix)
    \/ \E id \in Events : \E add_prefix \in BOOLEAN : Items(id, add_prefix)

Spec == Init /\ [][Next]_vars

\* ---------------------------------------- reset and in-place mutation
\* the objects an object holds references to
Held(o) ==
    {o.data[k].v : k \in {x \in DOMAIN o.data : IsRef(o.data[x])}}
    \cup (IF o.kind = "list"
          THEN {o.elems[i].v : i \in {x \in 1..Len(o.elems) : IsRef(o.elems[x])}}
          ELSE {o.elems[i].val.v :
                   i \in {x \in 1..Len(o.elems) : IsRef(o.elems[x].val)}})

RECURSIVE Reach(_, _)
\* the objects reachable from those of S
Reach(h, S) ==
    LET T == S \cup UNION {Held(h[i]) : i \in S}
    IN  IF T = S THEN S ELSE Reach(h, T)

\* the objects a program holding its Event records can get at
Live == Reach(heap, Events)

LiveOf(kind) == {i \in Live : heap[i].kind = kind}

\* lst.append(val)
ListAppend(id, val) ==
    /\ Len(heap[id].elems) < MaxLen
    /\ heap' = [heap EXCEPT ![id].elems = Append(@, val)]
    /\ last' = Called("append", id, "", val, Result(heap, "", NoneV, 0))
    /\ UNCHANGED classes

\* map[k] = val
MapSet(id, k, val) ==
    /\ heap' = [heap EXCEPT ![id].elems = DictSet(@, k, val)]
    /\ last' = Called("mapset", id, k, val, Result(heap, "", NoneV, 0))
    /\ UNCHANGED classes

\* one record is made, changed at every depth, and reset for reuse
NextReset ==
    \/ Events = {} /\ Construct("Event", <<>>, MaxResetObjs)
    \/ \E id \in LiveOf("Container") : \E name \in FieldNames(heap[id].type) :
           SetAttr(id, name, IntV(1))
    \/ \E id \in Events : Update(id, <<Kw("x", 1), Kw("old", 1)>>)
    \/ \E id \in Events : MetaSet(id, "KEY", IntV(1))
    \/ \E id \in LiveOf("Container") : \E recursive \in BOOLEAN :
           Reset(id, recursive, MaxResetObjs)

SpecReset == Init /\ [][NextReset]_vars

\* sibling records are made, their mutable values changed in place, and
\* reset
NextAlias ==
    \/ Construct("Event", <<>>, MaxAliasObjs)
    \/ \E id \in LiveOf("Container") \cap InstancesOf("Leaf") :
           SetAttr(id, "value", IntV(1))
    \/ \E id \in LiveOf("list") : ListAppend(id, IntV(1))
    \/ \E id \in LiveOf("Map") : MapSet(id, "1", IntV(1))
    \/ \E id \in Events : Reset(id, TRUE, MaxAliasObjs)

SpecAlias == Init /\ [][NextAlias]_vars

\* --------------------------------------------- trees and as_dict
\* map[k] = T() for a Container type T, or map[k] = Map()
MapSetNew(id, k, T, limit) ==
    LET r == IF T = "Map"
             THEN Result(Append(heap, MapObj(<<>>)), "", RefV(Len(heap) + 1), 0)
             ELSE Container_init(classes, heap, T, <<>>)
    IN  /\ Len(r.heap) <= limit
        /\ heap' = [r.heap EXCEPT ![id].elems = DictSet(@, k, r.ret)]
        /\ last' = [Called("mapset", id, k, r.ret, r) EXCEPT !.type = T]
        /\ UNCHANGED classes

\* trees of Containers and Maps are built and converted
NextDict ==
    \/ Events = {} /\ Construct("Event", <<>>, MaxDictObjs)
    \/ \E id \in LiveOf("Map") : \E k \in {"1", "2"} :
           \E T \in {"Leaf", "Child", "Map"} : MapSetNew(id, k, T, MaxDictObjs)
    \/ \E id \in LiveOf("Map") : MapSet(id, "1", IntV(1))
    \/ \E id \in LiveOf("Container") \cup LiveOf("Map") :
           \E recursive, flatten, add_prefix \in BOOLEAN :
               AsDict(id, recursive, flatten, add_prefix)

SpecDict == Init /\ [][NextDict]_vars

\* ------------------------------------------------ class definitions
\* the names of the classes defined, in the order they are defined
ClassNames == <<"A", "B", "C">>

Defined == Cardinality(DOMAIN classes) - 1

\* the default of the Field that class `name` declares for field f
DeclaredValue(name, f) ==
    CASE name = "A" /\ f = "x" -> IntV(0)
      [] name = "A" /\ f = "y" -> IntV(15)
      [] name = "B" /\ f = "x" -> IntV(5)
      [] name = "B" /\ f = "z" -> StrV("ok")
      [] OTHER -> StrV(name \o "." \o f)

\* class bodies: the fields declared, in order
Bodies == {<<>>, <<"x", "y">>, <<"z", "x">>}

BodyDct(name, body) ==
    [i \in 1..Len(body) |->
        Entry(body[i], FieldDesc(name, body[i], DeclaredValue(name, body[i])))]

BasesChoices ==
    {<<b>> : b \in DOMAIN classes}
    \cup {<<b1, b2>> : b1, b2 \in DOMAIN classes}

InitMeta ==
    /\ classes = "Container" :> ContainerClass
    /\ heap = <<>>
    /\ last = NoLast

\* class name(*bases): body
DefineClass(name, bases, body) ==
    /\ name \notin DOMAIN classes
    /\ IF BasesRejected(classes, bases)
       THEN /\ classes' = classes
            /\ last' = [NoLast EXCEPT !.op = "class", !.type = name,
                                      !.exc = "TypeError"]
       ELSE /\ classes' = (name :> MetaNew(classes, name, bases,
                                           BodyDct(name, body))) @@ classes
            /\ last' = [NoLast EXCEPT !.op = "class", !.type = name]
    /\ UNCHANGED heap

\* T.name, on the class itself
ClassGetAttr(T, name) ==
    LET r == class_getattr(classes, heap, T, name)
    IN  /\ last' = [Called("classattr", 0, name, NoneV, r) EXCEPT !.type = T]
        /\ UNCHANGED <<classes, heap>>

\* classes are defined and instantiated, and their attributes read
NextMeta ==
    \/ \E bases \in BasesChoices : \E body \in Bodies :
           /\ Defined < Len(ClassNames)
           /\ DefineClass(ClassNames[Defined + 1], bases, body)
    \/ \E T \in DOMAIN classes : Construct(T, <<>>, MaxMetaObjs)
    \/ \E T \in DOMAIN classes : \E name \in FieldNames(T) \cup {"bogus"} :
           ClassGetAttr(T, name)

SpecMeta == InitMeta /\ [][NextMeta]_vars

\* ------------------------------------------------------------ claims
\* what the value store holds under `name` (None when nothing)
Stored(h, id, name) ==
    IF name \in DOMAIN h[id].data THEN h[id].data[name] ELSE NoneV

Unknown(T, name) == name \notin FieldNames(T) /\ name \notin ContainerSlots

DeprecatedNames(T) ==
    {n \in FieldNames(T) :
        DictGet(classes[T].fields, n).kind = "DeprecatedField"}

\* C1: the key set of every record's value store is exactly the key set of
\* its type's schema, and construction with a keyword that is no schema
\* field fails.
C1_StoreKeysAreSchemaKeys ==
    /\ \A id \in Instances : DOMAIN heap[id].data = FieldNames(heap[id].type)
    /\ (last.op = "construct"
          /\ ~(DictKeySet(last.kwargs) \subseteq FieldNames(last.type)))
       => last.exc # ""

\* C2, one assignment obj.name = val or obj[name] = val that ended with
\* exception exc, taking heap h to heap h2
C2_Assigned(h, h2, id, name, val, exc) ==
    LET T == h[id].type
    IN  /\ Unknown(T, name) =>
            /\ exc = "AttributeError"
            /\ Stored(h2, id, name) = Stored(h, id, name)
        /\ name \in FieldNames(T) =>
            /\ exc = ""
            /\ getattr_(classes, h2, id, name).exc = ""
            /\ getattr_(classes, h2, id, name).ret = val
            /\ getitem_(classes, h2, id, name).exc = ""
            /\ getitem_(classes, h2, id, name).ret = val

C2_Step ==
    LET id == last'.target
    IN  /\ last'.op \in {"setattr", "setitem"} =>
            C2_Assigned(heap, heap', id, last'.name, last'.val, last'.exc)
        /\ last'.op = "update" =>
            LET kw == last'.kwargs
                T == heap[id].type
            IN  /\ \A i \in 1..Len(kw) : Unknown(T, kw[i].k) =>
                       /\ last'.exc = "AttributeError"
                       /\ Stored(heap', id, kw[i].k) = Stored(heap, id, kw[i].k)
                /\ DictKeySet(kw) \subseteq FieldNames(T) =>
                       \A i \in 1..Len(kw) :
                           C2_Assigned(heap, heap', id, kw[i].k, kw[i].val,
                                       last'.exc)

\* C2: attribute assignment, item assignment and update() of a name that
\* is neither a schema field nor a reserved attribute raise AttributeError
\* and store nothing under the name; of a schema field they succeed, and
\* attribute access and item access then return the value.
C2_AttributeRestriction == [][C2_Step]_vars

C2_Witness ==
    /\ last.op = "update"
    /\ last.kwargs = <<Kw("x", 1), Kw("bogus", 1)>>
    /\ last.exc = "AttributeError"
    /\ "bogus" \notin DOMAIN heap[last.target].data
    /\ heap[last.target].data["x"] = IntV(1)

\* C9: every read and every write of a DeprecatedField emits exactly one
\* deprecation notice, raises nothing, and performs the read or write.
C9_DeprecatedAccessWarnsOnce ==
    LET id == last.target
        D == DeprecatedNames("Event")
    IN  /\ (last.op \in {"getattr", "getitem"} /\ last.name \in D) =>
            /\ last.warned = 1
            /\ last.exc = ""
            /\ last.ret = heap[id].data[last.name]
        /\ (last.op \in {"setattr", "setitem"} /\ last.name \in D) =>
            /\ last.warned = 1
            /\ last.exc = ""
            /\ heap[id].data[last.name] = last.val
        /\ (last.op \in {"update", "construct"} /\ last.exc = "") =>
            /\ last.warned = Cardinality(DictKeySet(last.kwargs) \cap D)
            /\ \A i \in 1..Len(last.kwargs) :
                   last.kwargs[i].k \in D =>
                       heap[id].data[last.kwargs[i].k] = last.kwargs[i].val

RECURSIVE DeepEq(_, _, _, _)
\* value a of heap ha and value b of heap hb are equal in structure:
\* the same terminal, or objects of the same class that hold equal values
DeepEq(ha, a, hb, b) ==
    IF ~IsRef(a) \/ ~IsRef(b) THEN a = b
    ELSE LET x == ha[a.v]
             y == hb[b.v]
         IN  /\ x.kind = y.kind
             /\ x.type = y.type
             /\ x.prefix = y.prefix
             /\ x.meta = y.meta
             /\ DOMAIN x.data = DOMAIN y.data
             /\ \A k \in DOMAIN x.data : DeepEq(ha, x.data[k], hb, y.data[k])
             /\ Len(x.elems) = Len(y.elems)
             /\ \A i \in 1..Len(x.elems) :
                    IF x.kind = "list"
                    THEN DeepEq(ha, x.elems[i], hb, y.elems[i])
                    ELSE /\ x.elems[i].k = y.elems[i].k
                         /\ DeepEq(ha, x.elems[i].val, hb, y.elems[i].val)

\* the default Field(...) declared for field f of type T, as it was when
\* the class was defined
DeclaredDefault(T, f) == DictGet(Program.classes[T].fields, f).default

C3_Step ==
    last'.op = "reset" =>
        LET id == last'.target
            T == heap[id].type
        IN  /\ \A f \in FieldNames(T) :
                   /\ DeepEq(heap', heap'[id].data[f],
                             Program.heap, DeclaredDefault(T, f))
                   /\ IsContainer(Program.heap, DeclaredDefault(T, f)) =>
                          LET U == Program.heap[DeclaredDefault(T, f).v].type
                              fresh == Container_init(classes, heap', U, <<>>)
                          IN  DeepEq(heap', heap'[id].data[f],
                                     fresh.heap, fresh.ret)
            /\ heap'[id].meta = heap[id].meta

\* C3: reset() leaves every schema field equal to its declared default (a
\* nested Container field equal to a freshly constructed record, at every
\* depth) and leaves meta as it was.
C3_ResetRestoresDefaults == [][C3_Step]_vars

C3_Witness ==
    /\ last.op = "reset"
    /\ heap[last.target].type = "Event"
    /\ heap[last.target].meta # <<>>
    /\ heap[last.target].data["x"] = IntV(0)
    /\ \E i \in Made : heap[i].type = "Leaf" /\ heap[i].data["value"] = IntV(1)

C10_Step ==
    (last'.op = "reset" /\ last'.recursive) =>
        LET id == last'.target
            T == heap[id].type
        IN  \A f \in FieldNames(T) :
                IF IsContainer(heap, heap[id].data[f])
                THEN /\ heap'[id].data[f] = heap[id].data[f]
                     /\ LET fresh == Container_init(classes, heap',
                                         heap[heap[id].data[f].v].type, <<>>)
                        IN  DeepEq(heap', heap'[id].data[f],
                                   fresh.heap, fresh.ret)
                ELSE DeepEq(heap', heap'[id].data[f],
                            Program.heap, DeclaredDefault(T, f))

\* C10: reset(recursive=True) resets a field that holds a nested Container
\* in place, the field holding the same object afterwards, and replaces
\* every other field by a copy of its default.
C10_RecursiveResetInPlace == [][C10_Step]_vars

\* the references a made object holds, with where it holds them
HeldAt(i) ==
    LET o == heap[i]
    IN  {<<i, "data", k, o.data[k].v>> :
            k \in {x \in DOMAIN o.data : IsRef(o.data[x])}}
        \cup (IF o.kind = "list"
              THEN {<<i, "elem", "", o.elems[j].v>> :
                       j \in {x \in 1..Len(o.elems) : IsRef(o.elems[x])}}
              ELSE {<<i, "item", o.elems[j].k, o.elems[j].val.v>> :
                       j \in {x \in 1..Len(o.elems) : IsRef(o.elems[x].val)}})

AllHeld == UNION {HeldAt(i) : i \in Made}

\* C4: default values are never aliased: no record holds a declared
\* default object or an object another record (or another field) holds, and
\* no default object is ever changed, whatever is constructed, changed in
\* place and reset.
C4_DefaultsNeverAliased ==
    /\ \A d \in DefaultIds : heap[d] = Program.heap[d]
    /\ \A r \in AllHeld : r[4] \notin DefaultIds
    /\ \A r1, r2 \in AllHeld : r1[4] = r2[4] => r1 = r2

C4_Witness ==
    /\ last.op = "reset"
    /\ \E a, b \in Events :
          /\ a # b
          /\ heap[heap[a].data["hits"].v].elems = <<IntV(1)>>
          /\ heap[heap[b].data["hits"].v].elems = <<>>
          /\ heap[heap[a].data["tels"].v].elems # <<>>
          /\ heap[heap[heap[a].data["child"].v].data["leaf"].v].data["value"]
                 = IntV(1)
          /\ heap[heap[heap[b].data["child"].v].data["leaf"].v].data["value"]
                 = IntV(0)

\* the names keys(add_prefix=True) is to yield: prefix_field, or the
\* field names alone when the prefix is empty
PrefixedNames(id) ==
    LET ks == DictKeys(classes[heap[id].type].fields)
    IN  [i \in 1..Len(ks) |->
            IF heap[id].prefix = "" THEN ks[i]
            ELSE heap[id].prefix \o "_" \o ks[i]]

\* C6: keys(add_prefix=True) yields one name per schema field in schema
\* order, prefix_field for a non-empty prefix and the field name alone for
\* an empty prefix: the names items() and as_dict() produce.
C6_KeysAddPrefix ==
    (last.op = "keys" /\ last.add_prefix) =>
        /\ last.names = PrefixedNames(last.target)
        /\ last.names =
              DictKeys(Container_items(classes, heap, last.target, TRUE))
        /\ last.names =
              DictKeys(Container_as_dict(classes, heap, last.target,
                                         FALSE, FALSE, TRUE))

\* the (key, value) pairs of a Container, in schema order, or of a Map
PlainItems(h, id) ==
    IF h[id].kind = "Container"
    THEN LET ks == DictKeys(classes[h[id].type].fields)
         IN  [i \in 1..Len(ks) |-> Entry(ks[i], h[id].data[ks[i]])]
    ELSE h[id].elems

RECURSIVE Paths(_, _, _)
\* every terminal value below val, with the keys on its path from the
\* root joined by underscores
Paths(h, val, path) ==
    IF IsContainer(h, val) \/ IsMap(h, val)
    THEN LET items == PlainItems(h, val.v)
         IN  UNION {Paths(h, items[i].val,
                          IF path = "" THEN items[i].k
                          ELSE path \o "_" \o items[i].k) :
                       i \in 1..Len(items)}
    ELSE {<<path, val>>}

\* C5: as_dict(recursive=True, flatten=True) returns a single-level
\* mapping, for trees of any depth: no value is a Container, a Map or a
\* nested mapping, and every terminal value is found under the key that
\* joins the keys on its path with underscores.
C5_FlattenIsFlat ==
    (last.op = "as_dict" /\ last.recursive /\ last.flatten) =>
        /\ \A i \in 1..Len(last.dict) :
               /\ ~last.dict[i].isdict
               /\ ~IsContainer(heap, last.dict[i].val)
               /\ ~IsMap(heap, last.dict[i].val)
        /\ ~last.add_prefix =>
               \A p \in Paths(heap, RefV(last.target), "") :
                   /\ DictHas(last.dict, p[1])
                   /\ ~DictEntry(last.dict, p[1]).isdict
                   /\ DictEntry(last.dict, p[1]).val = p[2]

RECURSIVE Ancestors(_)
\* the class T and the classes it derives from, through its bases
Ancestors(T) ==
    {T} \cup UNION {Ancestors(classes[T].bases[i]) :
                       i \in 1..Len(classes[T].bases)}

\* the fields a class body declares
Declares(T) ==
    {k \in DictKeySet(classes[T].dct) : IsField(DictGet(classes[T].dct, k))}

RECURSIVE FirstDeclaring(_, _)
\* the first class of a method resolution order that declares field f
FirstDeclaring(mro, f) ==
    IF f \in Declares(mro[1]) THEN mro[1] ELSE FirstDeclaring(Tail(mro), f)

\* C7: the schema of every Container type has exactly the field names
\* declared on the type and its ancestors, each mapped to the descriptor of
\* the most derived declaring type in method resolution order, the one
\* attribute access uses, whose default a fresh instance holds.
C7_SchemaMergesAncestors ==
    \A T \in DOMAIN classes :
        LET names == UNION {Declares(c) : c \in Ancestors(T)}
        IN  /\ DictKeySet(classes[T].fields) = names
            /\ \A f \in names :
                   LET c == FirstDeclaring(classes[T].mro, f)
                       d == DictGet(classes[c].dct, f)
                   IN  /\ DictGet(classes[T].fields, f) = d
                       /\ Descriptor(classes, T, f) = d
                       /\ \A i \in 1..Len(heap) :
                              heap[i].type = T => heap[i].data[f] = d.default

\* A declares x=0, y=15; B(A) declares z="ok" and x=5; a fresh B() holds
\* x=5, y=15, z="ok" and B.fields has the keys x, y, z.
C7_Witness ==
    /\ "B" \in DOMAIN classes
    /\ classes["B"].bases = <<"A">>
    /\ DictKeys(classes["A"].dct) = <<"x", "y", "container_prefix">>
    /\ DictKeys(classes["B"].dct) = <<"z", "x", "container_prefix">>
    /\ DictKeys(classes["B"].fields) = <<"x", "y", "z">>
    /\ Len(heap) = 1
    /\ heap[1].type = "B"
    /\ heap[1].data = [x |-> IntV(5), y |-> IntV(15), z |-> StrV("ok")]

\* C8: reading a field on the Container type itself returns the field's
\* descriptor, the object fields holds for it, and does not fail.
C8_ClassAccessReturnsDescriptor ==
    (last.op = "classattr" /\ last.name \in FieldNames(last.type)) =>
        /\ last.exc = ""
        /\ last.ret = DescV(DictGet(classes[last.type].fields, last.name))

====
